---- MODULE Spec2Model ----
(***************************************************************************)
(* Model of scripts/prune-helm-repo.py: one run of main(), from argument   *)
(* parsing to the process exit.  A file name is the sequence of its        *)
(* dot-separated components (<<"x","tgz">> is x.tgz), a url is the         *)
(* sequence of its "/"-separated segments, and a manifest line is the      *)
(* sequence of its whitespace-separated tokens.                            *)
(***************************************************************************)
EXTENDS Integers, Sequences, FiniteSets, TLC

\* ---------------------------------------------------------------- bounds
MaxEntries == 2
MaxKeep == 1
MaxHelmStatus == 2

\* ---------------------------------------------------------------- inputs
NoValue == "None"
\* a value of the index that is not of the expected yaml type
NotAList == [kind |-> "scalar", items |-> <<>>]
ListOf(items) == [kind |-> "list", items |-> items]

ChartOrder == <<"a", "b">>
Charts == {ChartOrder[i] : i \in 1..Len(ChartOrder)}

VersionStrings == {"2.0.0", "1.0.0", "0.0.0rc1", "latest"}
VersionFields == VersionStrings \cup {NoValue}

XTgz == <<"x", "tgz">>
YTgz == <<"y", "tgz">>
YProv == <<"y", "tgz", "prov">>
IndexYaml == <<"index", "yaml">>
Readme == <<"README", "md">>

UrlX == <<XTgz>>
UrlXRemote == <<<<"https:">>, <<>>, <<"charts", "example", "com">>, <<"stable">>, XTgz>>
UrlY == <<<<"charts">>, YTgz>>
UrlYProv == <<<<"charts">>, YProv>>

UrlLists == {<<UrlX>>, <<UrlY, UrlYProv>>}

EntryA == [version : VersionFields, urls : UrlLists]
EntryB == {[version |-> "1.0.0", urls |-> <<UrlXRemote>>]}

SeqUpTo(S, n) == UNION {[1..k -> S] : k \in 0..n}

EntriesMaps ==
    {[c \in Charts |-> IF c = "a" THEN ListOf(la) ELSE lb] :
        la \in SeqUpTo(EntryA, MaxEntries),
        lb \in {NotAList} \cup {ListOf(<<e>>) : e \in EntryB}}
NoEntries == [c \in Charts |-> ListOf(<<>>)]
\* index.yaml: absent, with entries that is not a map, or with a map
IndexDocs ==
    {[exists |-> FALSE, is_map |-> FALSE, entries |-> NoEntries],
     [exists |-> TRUE, is_map |-> FALSE, entries |-> NoEntries]} \cup
    {[exists |-> TRUE, is_map |-> TRUE, entries |-> m] : m \in EntriesMaps}

\* the protection manifests: a comment, a blank line, two versions of one
\* chart (9.9.9 is in no index), another chart, and lines that are not pairs
ManifestTexts ==
    { << <<"#a", "2.0.0">>, <<"a", "1.0.0">> >>,
      << <<"a", "1.0.0">>, <<"a", "9.9.9">> >>,
      << <<>>, <<"b", "1.0.0">> >>,
      << <<"a", "1.0.0">>, <<"a">> >>,
      << <<"a", "1.0.0", "pinned">> >> }
Manifests ==
    {[exists |-> FALSE, lines |-> <<>>]} \cup
    {[exists |-> TRUE, lines |-> l] : l \in ManifestTexts}

KeepValues == (0 - 1)..MaxKeep
HelmStatuses == 0..MaxHelmStatus

RepoDir == <<<<"srv">>, <<"charts">>>>
ArchiveNames == {XTgz, YTgz}
InitialFileSets == {ArchiveNames \cup {Readme, YProv}, {YTgz, Readme}}

\* the names of the model in the order of sorted()
SortedNames == <<Readme, IndexYaml, XTgz, YTgz, YProv>>

\* no exit status yet
NotRun == 0 - 1
Running == 0 - 1

VARIABLES pc, keep, dry_run, index_doc, manifest, files, files0,
          protected, chart_i, keep_versions, marked, to_delete_files,
          queue, deleted_any, attempts, unlinked, reindex_calls,
          helm_status, stdout, stderr, exit_code

vars == <<pc, keep, dry_run, index_doc, manifest, files, files0,
          protected, chart_i, keep_versions, marked, to_delete_files,
          queue, deleted_any, attempts, unlinked, reindex_calls,
          helm_status, stdout, stderr, exit_code>>

inputs == <<keep, dry_run, index_doc, manifest, files0>>

\* ---------------------------------------------------------------- helpers
StartsWithHash(tok) == tok \in {"#", "#a"}

EmptyMap == [c \in {} |-> {}]

\* variant: a line that is not a pair is skipped
RECURSIVE load_lines_lenient(_, _)
load_lines_lenient(lines, acc) ==
    IF lines = <<>> THEN [raised |-> FALSE, map |-> acc]
    ELSE LET line == Head(lines) IN
         IF line = <<>> \/ StartsWithHash(Head(line)) \/ Len(line) # 2
         THEN load_lines_lenient(Tail(lines), acc)
         ELSE load_lines_lenient(Tail(lines),
                [c \in DOMAIN acc \cup {line[1]} |->
                    IF c = line[1]
                    THEN (IF c \in DOMAIN acc THEN acc[c] ELSE {}) \cup {line[2]}
                    ELSE acc[c]])

\* the loop of load_protected; raised is the ValueError of a bad line
RECURSIVE load_lines(_, _)
load_lines(lines, acc) ==
    IF lines = <<>> THEN [raised |-> FALSE, map |-> acc]
    ELSE LET line == Head(lines) IN
         IF line = <<>> \/ StartsWithHash(Head(line))
         THEN load_lines(Tail(lines), acc)
         ELSE IF Len(line) # 2 THEN [raised |-> TRUE, map |-> EmptyMap]
         ELSE load_lines(Tail(lines),
                [c \in DOMAIN acc \cup {line[1]} |->
                    IF c = line[1]
                    THEN (IF c \in DOMAIN acc THEN acc[c] ELSE {}) \cup {line[2]}
                    ELSE acc[c]])

load_protected(m) ==
    IF ~m.exists THEN [raised |-> FALSE, map |-> EmptyMap]
    ELSE load_lines(m.lines, EmptyMap)

ProtectedGet(p, c) == IF c \in DOMAIN p THEN p[c] ELSE {}

\* packaging.version.Version: <<release..., pre-release rank>>; a final
\* release ranks above its release candidates
InvalidVersion == <<>>
ParseVersion(s) ==
    CASE s = "2.0.0" -> <<2, 0, 0, 1>>
      [] s = "1.0.0" -> <<1, 0, 0, 1>>
      [] s = "0.0.0" -> <<0, 0, 0, 1>>
      [] s = "0.0.0rc1" -> <<0, 0, 0, 0>>
      [] OTHER -> InvalidVersion

semver_key(ver_str) ==
    IF ParseVersion(ver_str) = InvalidVersion
    THEN ParseVersion("0.0.0")
    ELSE ParseVersion(ver_str)

RECURSIVE LexLess(_, _)
LexLess(k1, k2) ==
    IF k1 = <<>> \/ k2 = <<>> THEN FALSE
    ELSE IF Head(k1) # Head(k2) THEN Head(k1) < Head(k2)
    ELSE LexLess(Tail(k1), Tail(k2))

SortKey(e) == semver_key(IF e.version = NoValue THEN "0.0.0" ELSE e.version)

VersionStr(e) == e.version

\* stable insertion: after every element whose key is not smaller
RECURSIVE InsertDesc(_, _)
InsertDesc(e, s) ==
    IF s = <<>> THEN <<e>>
    ELSE IF LexLess(SortKey(Head(s)), SortKey(e)) THEN <<e>> \o s
    ELSE <<Head(s)>> \o InsertDesc(e, Tail(s))

RECURSIVE SortDesc(_, _)
SortDesc(todo, done) ==
    IF todo = <<>> THEN done
    ELSE SortDesc(Tail(todo), InsertDesc(Head(todo), done))

\* positions of the index list, newest first, ties in index order
sorted_versions(versions) ==
    SortDesc([i \in 1..Len(versions) |->
                 [version |-> versions[i].version, urls |-> versions[i].urls, pos |-> i]],
             <<>>)

\* variant: one element too many
SliceOneMore(s, n) ==
    SubSeq(s, 1, IF n + 1 < Len(s) THEN n + 1 ELSE Len(s))

\* s[:n]
Slice(s, n) ==
    LET m == IF n >= 0 THEN (IF n < Len(s) THEN n ELSE Len(s))
             ELSE (IF Len(s) + n > 0 THEN Len(s) + n ELSE 0)
    IN SubSeq(s, 1, m)

Range(s) == {s[i] : i \in 1..Len(s)}

\* variant: the protected versions are not added
KeepSetLatestOnly(versions, prot, n) ==
    {VersionStr(e) : e \in Range(Slice(sorted_versions(versions), n))}

KeepSet(versions, prot, n) ==
    {VersionStr(e) : e \in Range(Slice(sorted_versions(versions), n))} \cup prot

\* Path(str(u)).name
PathName(u) == IF u = <<>> THEN <<>> ELSE u[Len(u)]

\* variant: no filter on the suffix
EndsWithAnything(fname) == Len(fname) >= 1

EndsWithTgz(fname) == Len(fname) >= 2 /\ fname[Len(fname)] = "tgz"

\* repo_dir / fname
Child(dir, fname) == Append(dir, fname)

\* f.exists() for a path f, files being the listing of the repository directory
Exists(f, listing) ==
    /\ Len(f) = Len(RepoDir) + 1
    /\ SubSeq(f, 1, Len(RepoDir)) = RepoDir
    /\ PathName(f) \in listing

\* the paths one entry adds to to_delete_files
EntryFiles(e) ==
    {Child(RepoDir, PathName(u)) :
        u \in {x \in Range(e.urls) : EndsWithTgz(PathName(x))}}

sorted(S) ==
    SelectSeq([i \in 1..Len(SortedNames) |-> Child(RepoDir, SortedNames[i])],
              LAMBDA f : f \in S)

\* ---------------------------------------------------------------- run
Init ==
    /\ pc = "index"
    /\ keep \in KeepValues
    /\ dry_run \in BOOLEAN
    /\ index_doc \in IndexDocs
    /\ manifest \in Manifests
    /\ files0 \in InitialFileSets
    /\ files = files0 \cup (IF index_doc.exists THEN {IndexYaml} ELSE {})
    /\ protected = EmptyMap
    /\ chart_i = 1
    /\ keep_versions = [c \in Charts |-> {}]
    /\ marked = {}
    /\ to_delete_files = {}
    /\ queue = <<>>
    /\ deleted_any = FALSE
    /\ attempts = <<>>
    /\ unlinked = {}
    /\ reindex_calls = 0
    /\ helm_status = NotRun
    /\ stdout = <<>>
    /\ stderr = <<>>
    /\ exit_code = Running

IndexMissing ==
    /\ pc = "index"
    /\ ~index_doc.exists
    /\ stderr' = Append(stderr, [msg |-> "index.yaml not found", names |-> <<>>])
    /\ exit_code' = 2
    /\ pc' = "done"
    /\ UNCHANGED <<inputs, files, protected, chart_i, keep_versions, marked,
                   to_delete_files, queue, deleted_any, attempts, unlinked,
                   reindex_calls, helm_status, stdout>>

\* variant: entries that is not a map is read as an empty map
IndexMalformedIgnored ==
    /\ pc = "index"
    /\ index_doc.exists
    /\ ~index_doc.is_map
    /\ pc' = "protect"
    /\ UNCHANGED <<inputs, files, protected, chart_i, keep_versions, marked,
                   to_delete_files, queue, deleted_any, attempts, unlinked,
                   reindex_calls, helm_status, stdout, stderr, exit_code>>

IndexMalformed ==
    /\ pc = "index"
    /\ index_doc.exists
    /\ ~index_doc.is_map
    /\ stderr' = Append(stderr, [msg |-> "entries is not a map", names |-> <<>>])
    /\ exit_code' = 2
    /\ pc' = "done"
    /\ UNCHANGED <<inputs, files, protected, chart_i, keep_versions, marked,
                   to_delete_files, queue, deleted_any, attempts, unlinked,
                   reindex_calls, helm_status, stdout>>

IndexLoaded ==
    /\ pc = "index"
    /\ index_doc.exists
    /\ index_doc.is_map
    /\ pc' = "protect"
    /\ UNCHANGED <<inputs, files, protected, chart_i, keep_versions, marked,
                   to_delete_files, queue, deleted_any, attempts, unlinked,
                   reindex_calls, helm_status, stdout, stderr, exit_code>>

LoadProtectedOk ==
    /\ pc = "protect"
    /\ ~load_protected(manifest).raised
    /\ protected' = load_protected(manifest).map
    /\ pc' = "plan"
    /\ UNCHANGED <<inputs, files, chart_i, keep_versions, marked,
                   to_delete_files, queue, deleted_any, attempts, unlinked,
                   reindex_calls, helm_status, stdout, stderr, exit_code>>

LoadProtectedError ==
    /\ pc = "protect"
    /\ load_protected(manifest).raised
    /\ stderr' = Append(stderr, [msg |-> "ValueError: Invalid protect line", names |-> <<>>])
    /\ exit_code' = 1
    /\ pc' = "done"
    /\ UNCHANGED <<inputs, files, protected, chart_i, keep_versions, marked,
                   to_delete_files, queue, deleted_any, attempts, unlinked,
                   reindex_calls, helm_status, stdout>>

PlanSkipChart ==
    /\ pc = "plan"
    /\ chart_i <= Len(ChartOrder)
    /\ index_doc.entries[ChartOrder[chart_i]].kind # "list"
    /\ chart_i' = chart_i + 1
    /\ UNCHANGED <<pc, inputs, files, protected, keep_versions, marked,
                   to_delete_files, queue, deleted_any, attempts, unlinked,
                   reindex_calls, helm_status, stdout, stderr, exit_code>>

PlanChart ==
    /\ pc = "plan"
    /\ chart_i <= Len(ChartOrder)
    /\ LET chart_name == ChartOrder[chart_i]
           versions == index_doc.entries[chart_name].items
       IN /\ index_doc.entries[chart_name].kind = "list"
          /\ LET sv == sorted_versions(versions)
                 kv == KeepSet(versions, ProtectedGet(protected, chart_name), keep)
                 del == {i \in 1..Len(sv) : VersionStr(sv[i]) \notin kv}
             IN /\ keep_versions' = [keep_versions EXCEPT ![chart_name] = kv]
                /\ marked' = marked \cup {<<chart_name, sv[i].pos>> : i \in del}
                /\ to_delete_files' =
                       to_delete_files \cup UNION {EntryFiles(sv[i]) : i \in del}
    /\ chart_i' = chart_i + 1
    /\ UNCHANGED <<pc, inputs, files, protected,
                   queue, deleted_any, attempts, unlinked,
                   reindex_calls, helm_status, stdout, stderr, exit_code>>

Report ==
    /\ pc = "plan"
    /\ chart_i > Len(ChartOrder)
    /\ stdout' = Append(stdout,
                    IF to_delete_files = {}
                    THEN [msg |-> "Nothing to delete.", names |-> <<>>]
                    ELSE [msg |-> "Will delete:",
                          names |-> [i \in 1..Len(sorted(to_delete_files)) |->
                                        PathName(sorted(to_delete_files)[i])]])
    /\ pc' = "report"
    /\ UNCHANGED <<inputs, files, protected, chart_i, keep_versions, marked,
                   to_delete_files, queue, deleted_any, attempts, unlinked,
                   reindex_calls, helm_status, stderr, exit_code>>

DryRunReturn ==
    /\ pc = "report"
    /\ dry_run
    /\ stdout' = Append(stdout, [msg |-> "Dry-run: not deleting or reindexing.", names |-> <<>>])
    /\ exit_code' = 0
    /\ pc' = "done"
    /\ UNCHANGED <<inputs, files, protected, chart_i, keep_versions, marked,
                   to_delete_files, queue, deleted_any, attempts, unlinked,
                   reindex_calls, helm_status, stderr>>

\* variant: the dry-run flag is not consulted
StartDeleteAlways ==
    /\ pc = "report"
    /\ deleted_any' = FALSE
    /\ queue' = sorted(to_delete_files)
    /\ pc' = "delete"
    /\ UNCHANGED <<inputs, files, protected, chart_i, keep_versions, marked,
                   to_delete_files, attempts, unlinked,
                   reindex_calls, helm_status, stdout, stderr, exit_code>>

StartDelete ==
    /\ pc = "report"
    /\ ~dry_run
    /\ deleted_any' = FALSE
    /\ queue' = sorted(to_delete_files)
    /\ pc' = "delete"
    /\ UNCHANGED <<inputs, files, protected, chart_i, keep_versions, marked,
                   to_delete_files, attempts, unlinked,
                   reindex_calls, helm_status, stdout, stderr, exit_code>>

DeleteFile ==
    /\ pc = "delete"
    /\ queue # <<>>
    /\ Exists(Head(queue), files)
    /\ files' = files \ {PathName(Head(queue))}
    /\ unlinked' = unlinked \cup {Head(queue)}
    /\ deleted_any' = TRUE
    /\ attempts' = Append(attempts, Head(queue))
    /\ queue' = Tail(queue)
    /\ UNCHANGED <<pc, inputs, protected, chart_i, keep_versions, marked,
                   to_delete_files, reindex_calls, helm_status, stdout, stderr,
                   exit_code>>

\* variant: a missing file ends the run
DeleteMissingFatal ==
    /\ pc = "delete"
    /\ queue # <<>>
    /\ ~Exists(Head(queue), files)
    /\ stderr' = Append(stderr, [msg |-> "FileNotFoundError",
                                  names |-> <<PathName(Head(queue))>>])
    /\ attempts' = Append(attempts, Head(queue))
    /\ exit_code' = 1
    /\ pc' = "done"
    /\ UNCHANGED <<inputs, files, protected, chart_i, keep_versions, marked,
                   to_delete_files, queue, deleted_any, unlinked, reindex_calls,
                   helm_status, stdout>>

DeleteMissing ==
    /\ pc = "delete"
    /\ queue # <<>>
    /\ ~Exists(Head(queue), files)
    /\ stderr' = Append(stderr, [msg |-> "Warning: file not found",
                                  names |-> <<PathName(Head(queue))>>])
    /\ attempts' = Append(attempts, Head(queue))
    /\ queue' = Tail(queue)
    /\ UNCHANGED <<pc, inputs, files, protected, chart_i, keep_versions, marked,
                   to_delete_files, deleted_any, unlinked, reindex_calls,
                   helm_status, stdout, exit_code>>

ReindexOk ==
    /\ pc = "delete"
    /\ queue = <<>>
    /\ reindex_calls' = reindex_calls + 1
    /\ helm_status' = 0
    /\ files' = files \cup {IndexYaml}
    /\ stdout' = stdout \o
          <<[msg |-> "Running: helm repo index", names |-> <<>>],
            [msg |-> IF deleted_any THEN "Prune complete."
                     ELSE "No files were deleted, but index.yaml was regenerated.",
             names |-> <<>>]>>
    /\ exit_code' = 0
    /\ pc' = "done"
    /\ UNCHANGED <<inputs, protected, chart_i, keep_versions, marked,
                   to_delete_files, queue, deleted_any, attempts, unlinked, stderr>>

\* variant: the status of the command is not checked
ReindexFailureIgnored ==
    /\ pc = "delete"
    /\ queue = <<>>
    /\ \E status \in HelmStatuses \ {0} :
          helm_status' = status
    /\ reindex_calls' = reindex_calls + 1
    /\ stdout' = stdout \o
          <<[msg |-> "Running: helm repo index", names |-> <<>>],
            [msg |-> IF deleted_any THEN "Prune complete."
                     ELSE "No files were deleted, but index.yaml was regenerated.",
             names |-> <<>>]>>
    /\ exit_code' = 0
    /\ pc' = "done"
    /\ UNCHANGED <<inputs, files, protected, chart_i, keep_versions, marked,
                   to_delete_files, queue, deleted_any, attempts, unlinked, stderr>>

ReindexFails ==
    /\ pc = "delete"
    /\ queue = <<>>
    /\ \E status \in HelmStatuses \ {0} :
          helm_status' = status
    /\ reindex_calls' = reindex_calls + 1
    /\ stdout' = Append(stdout, [msg |-> "Running: helm repo index", names |-> <<>>])
    /\ stderr' = Append(stderr, [msg |-> "CalledProcessError", names |-> <<>>])
    /\ exit_code' = 1
    /\ pc' = "done"
    /\ UNCHANGED <<inputs, files, protected, chart_i, keep_versions, marked,
                   to_delete_files, queue, deleted_any, attempts, unlinked>>

Next ==
    \/ IndexMissing
    \/ IndexMalformed
    \/ IndexLoaded
    \/ LoadProtectedOk
    \/ LoadProtectedError
    \/ PlanSkipChart
    \/ PlanChart
    \/ Report
    \/ DryRunReturn
    \/ StartDelete
    \/ DeleteFile
    \/ DeleteMissing
    \/ ReindexOk
    \/ ReindexFails

Spec == Init /\ [][Next]_vars

\* ---------------------------------------------------------------- claims
InitialFiles == files0 \cup (IF index_doc.exists THEN {IndexYaml} ELSE {})

IndexOf(c) == CHOOSE i \in 1..Len(ChartOrder) : ChartOrder[i] = c
IsList(c) == index_doc.entries[c].kind = "list"
Items(c) == index_doc.entries[c].items
\* the planner has finished the iteration of chart c
Planned(c) == pc \in {"plan", "report", "delete", "done"} /\ chart_i > IndexOf(c)
           /\ index_doc.exists /\ index_doc.is_map /\ IsList(c)
Marked(c) == {j \in 1..Len(Items(c)) : <<c, j>> \in marked}
Parses(v) == ParseVersion(v) # InvalidVersion
NamesOf(paths) == {PathName(f) : f \in paths}
Messages(out) == {out[i].msg : i \in 1..Len(out)}
SuccessMessages ==
    {"Prune complete.", "No files were deleted, but index.yaml was regenerated."}
PlanMessages == {"Nothing to delete.", "Will delete:"}
\* the base names of the urls of one entry
BaseNames(e) == {u[Len(u)] : u \in {x \in Range(e.urls) : x # <<>>}}

\* C1: a file referenced, by the base name of one of its urls, by an entry
\* whose version is in its package's keep set is never in the deletion set
\* and is never deleted, whatever other entries reference the same name
\* (for a keep-count N >= 0).
KeptFilesNeverDeleted ==
    \A c \in Charts : (Planned(c) /\ keep >= 0) =>
        \A j \in 1..Len(Items(c)) :
            VersionStr(Items(c)[j]) \in keep_versions[c] =>
                \A n \in {b \in BaseNames(Items(c)[j]) : EndsWithTgz(b)} :
                    /\ n \notin NamesOf(to_delete_files)
                    /\ n \notin NamesOf(unlinked)

\* the valid pairs of the protection manifest that name package c
ManifestPairs(c) ==
    {manifest.lines[i][2] :
        i \in {k \in 1..Len(manifest.lines) :
                 /\ Len(manifest.lines[k]) = 2
                 /\ ~StartsWithHash(manifest.lines[k][1])
                 /\ manifest.lines[k][1] = c}}

\* C2: a version listed for package p in the protection manifest is in p's
\* keep set for every keep-count, and no entry of p with that version string
\* is marked for deletion.
ProtectedAlwaysKept ==
    \A c \in Charts : Planned(c) =>
        \A v \in ManifestPairs(c) :
            /\ v \in keep_versions[c]
            /\ \A j \in 1..Len(Items(c)) :
                  VersionStr(Items(c)[j]) = v => j \notin Marked(c)

\* a protected version older than the newest `keep` entries, kept in a live run
ProtectedOldKept ==
    /\ pc = "done" /\ ~dry_run /\ keep = 1 /\ Planned("a")
    /\ Len(Items("a")) = 2
    /\ "1.0.0" \in ManifestPairs("a")
    /\ \E j \in 1..2 : /\ Items("a")[j].version = "1.0.0"
                       /\ Items("a")[3 - j].version = "2.0.0"
                       /\ j \notin Marked("a")
    /\ reindex_calls = 1

\* the order of versions the claims speak of: an unparseable version is
\* older than every parseable one
OlderOrSame(v, w) ==
    IF ~Parses(v) THEN TRUE
    ELSE IF ~Parses(w) THEN FALSE
    ELSE ~LexLess(ParseVersion(w), ParseVersion(v))

NumParseable(c) ==
    Cardinality({j \in 1..Len(Items(c)) : Parses(VersionStr(Items(c)[j]))})

DistinctVersions(c) ==
    \A j, k \in 1..Len(Items(c)) :
        j # k => VersionStr(Items(c)[j]) # VersionStr(Items(c)[k])

IndexLoads == index_doc.exists /\ index_doc.is_map
HasBadLine ==
    /\ manifest.exists
    /\ \E i \in 1..Len(manifest.lines) :
          /\ manifest.lines[i] # <<>>
          /\ ~StartsWithHash(manifest.lines[i][1])
          /\ Len(manifest.lines[i]) # 2
ManifestLoads == ~HasBadLine

\* C4: a dry run whose index and manifest load prints the plan and returns
\* 0, leaves the files of the repository directory as they were and never
\* invokes the reindex command.
DryRunTouchesNothing ==
    (dry_run /\ IndexLoads /\ ManifestLoads) =>
        /\ files = InitialFiles
        /\ unlinked = {} /\ attempts = <<>>
        /\ reindex_calls = 0
        /\ pc = "done" =>
              /\ exit_code = 0
              /\ Len(stdout) = 2
              /\ stdout[1].msg \in PlanMessages
              /\ {stdout[1].names[i] : i \in 1..Len(stdout[1].names)}
                     = NamesOf(to_delete_files)

\* a finished dry run whose plan names a file that exists
DryRunWithPlan ==
    /\ dry_run /\ pc = "done"
    /\ NamesOf(to_delete_files) \cap files # {}
    /\ exit_code = 0

\* the live run has got past the report of the plan
ReachedExecutor == ~dry_run /\ pc \in {"report", "delete", "done"} /\ Len(stdout) >= 1
Warnings == SelectSeq(stderr, LAMBDA m : m.msg = "Warning: file not found")

\* C5: a live run that reaches the executor invokes the reindex command
\* exactly once, after a deletion attempt for every planned file; an absent
\* file gives a warning only.
ReindexOnceAfterDeletions ==
    /\ reindex_calls <= 1
    /\ reindex_calls = 1 =>
          /\ pc = "done"
          /\ attempts = sorted(to_delete_files)
    /\ (ReachedExecutor /\ pc = "done") => reindex_calls = 1
    /\ ReachedExecutor =>
          Len(Warnings) = Cardinality({i \in 1..Len(attempts) : attempts[i] \notin unlinked})

\* a live run with nothing deleted, one planned file being absent
ReindexAfterWarning ==
    /\ ~dry_run /\ pc = "done"
    /\ Len(Warnings) >= 1 /\ unlinked = {}
    /\ reindex_calls = 1

\* C6: with the index absent, or its entries not a mapping, the run ends
\* with exit code 2, prints no plan, deletes nothing and does not reindex.
BadIndexExitsTwo ==
    (~IndexLoads) =>
        /\ pc \in {"index", "done"}
        /\ stdout = <<>>
        /\ files = InitialFiles /\ unlinked = {} /\ attempts = <<>>
        /\ reindex_calls = 0
        /\ pc = "done" => exit_code = 2

\* a live run ended by entries that is not a mapping
MalformedIndexEnded ==
    /\ pc = "done" /\ index_doc.exists /\ ~index_doc.is_map /\ ~dry_run
    /\ exit_code = 2

\* C7 as stated: a failing reindex command ends the run without a success
\* message and without a retry, and the exit status of the run is the status
\* of the command.
ReindexStatusPropagated ==
    helm_status > 0 =>
        /\ pc = "done"
        /\ exit_code # 0
        /\ Messages(stdout) \cap SuccessMessages = {}
        /\ reindex_calls = 1
        /\ exit_code = helm_status

\* C7 amended: a failing reindex command ends the run without a success
\* message and without a retry, and the exit status of the run is 1, the
\* status of the uncaught CalledProcessError, whatever the command's status.
ReindexFailureIsFatal ==
    helm_status > 0 =>
        /\ pc = "done"
        /\ exit_code = 1
        /\ Messages(stdout) \cap SuccessMessages = {}
        /\ reindex_calls = 1

\* the reindex command fails with status 2 after a file was deleted
ReindexFailedAfterDelete ==
    /\ helm_status = 2 /\ pc = "done" /\ unlinked # {}

\* C8: the planner's sort puts an entry whose version does not parse below
\* every entry whose version parses, so with at least N parseable versions
\* no unparseable, unprotected version is among the N kept (read for the
\* entries that have a version field and for N >= 1, where the order decides
\* what is kept).
UnparseableSortsLast ==
    \A c \in Charts : (Planned(c) /\ keep >= 1) =>
        LET sv == sorted_versions(Items(c)) IN
        /\ \A i, j \in 1..Len(sv) :
              (i < j /\ Parses(VersionStr(sv[j]))) =>
                  (Parses(VersionStr(sv[i])) \/ sv[i].version = NoValue)
        /\ NumParseable(c) >= keep =>
              \A v \in keep_versions[c] :
                  Parses(v) \/ v = NoValue \/ v \in ProtectedGet(protected, c)

\* C9: a manifest with a line that is not a pair ends the run with an error
\* before any plan is computed or printed, nothing deleted, no reindex; an
\* absent manifest is no error and protects nothing.
BadManifestIsFatal ==
    /\ HasBadLine =>
          /\ pc \in {"index", "protect", "done"}
          /\ stdout = <<>>
          /\ marked = {} /\ to_delete_files = {} /\ chart_i = 1
          /\ files = InitialFiles /\ unlinked = {} /\ attempts = <<>>
          /\ reindex_calls = 0
          /\ pc = "done" => exit_code \in {1, 2}
    /\ (~manifest.exists /\ pc \notin {"index", "protect"} /\ IndexLoads) =>
          /\ protected = EmptyMap
          /\ "ValueError: Invalid protect line" \notin Messages(stderr)
          /\ \A c \in Charts : Planned(c) =>
                keep_versions[c] \subseteq {VersionStr(e) : e \in Range(Items(c))}

\* a live run over a loaded index, ended by the bad line of the manifest
BadLineEnded ==
    /\ pc = "done" /\ HasBadLine /\ IndexLoads /\ ~dry_run
    /\ Len(Items("a")) >= 1 /\ keep = 0
    /\ exit_code = 1

NoRepeat(q) == \A i, j \in 1..Len(q) : i # j => q[i] # q[j]

\* C10: every path of the deletion set is a direct child of the repository
\* directory, named by the base name of a url of an entry that is not kept,
\* and ends in .tgz; only such files are removed, each name is attempted and
\* warned about at most once, and every other file stays.
DeletionSetIsExact ==
    /\ \A f \in to_delete_files :
          /\ Len(f) = Len(RepoDir) + 1
          /\ SubSeq(f, 1, Len(RepoDir)) = RepoDir
          /\ Len(f[Len(f)]) >= 2
          /\ f[Len(f)][Len(f[Len(f)])] = "tgz"
          /\ \E c \in Charts : \E j \in Marked(c) :
                /\ VersionStr(Items(c)[j]) \notin keep_versions[c]
                /\ f[Len(f)] \in BaseNames(Items(c)[j])
    /\ unlinked \subseteq to_delete_files
    /\ \A i \in 1..Len(attempts) : attempts[i] \in to_delete_files
    /\ NoRepeat(attempts)
    /\ NoRepeat(Warnings)
    /\ reindex_calls = 0 => files = InitialFiles \ NamesOf(unlinked)
    /\ \A n \in InitialFiles : n \notin NamesOf(to_delete_files) => n \in files

\* x.tgz, referenced by an entry of each package through different urls, is
\* deleted once in a live run that leaves y.tgz.prov in place
SharedNameDeletedOnce ==
    /\ pc = "done" /\ ~dry_run
    /\ Marked("a") # {} /\ Marked("b") # {}
    /\ \E j \in Marked("a") : XTgz \in BaseNames(Items("a")[j])
    /\ \E j \in Marked("a") : YProv \in BaseNames(Items("a")[j])
    /\ Cardinality({i \in 1..Len(attempts) : PathName(attempts[i]) = XTgz}) = 1
    /\ XTgz \notin files /\ YProv \in files
====
